---------------------------- MODULE Spec2Model ----------------------------
(***************************************************************************)
(* A model of src/app.py (GCC Message Generator): the constraint-enforcing *)
(* post-processor enforce_constraints, the cached content search           *)
(* search_content_by_person, and the rotating generate_message with its    *)
(* message history.                                                        *)
(*                                                                         *)
(* Python strings are TLA+ strings; Len, \o and SubSeq act on them as on   *)
(* sequences of characters.  Indices are 1-based here and 0-based in the   *)
(* source: a Python index k is the position k + 1.                         *)
(***************************************************************************)
EXTENDS Integers, Sequences, FiniteSets, TLC

VARIABLES
    draft,          \* enforce_constraints: the `message` argument (raw draft)
    company,        \* enforce_constraints: the `company` argument
    designation,    \* enforce_constraints: the `designation` argument
    message,        \* enforce_constraints: the returned string
    returned,       \* whether enforce_constraints has returned
    tavily_key,     \* whether the TAVELLY secret is a non-empty string
    search_cache,   \* st.session_state.search_cache: key -> results, timestamp
    api_usage,      \* st.session_state.api_usage["Tavily"]
    now,            \* datetime.now(), in minutes
    calls,          \* the number of search_content_by_person calls so far
    last,           \* the last search_content_by_person call and what it did
    groq_key,       \* whether the GROQ secret is a non-empty string
    content_rotation_index,   \* st.session_state.content_rotation_index
    generated_messages,       \* st.session_state.generated_messages
    current_message_index,    \* st.session_state.current_message_index
    gen             \* the last generate_message call and what it did

enforceVars == <<draft, company, designation, message, returned>>

searchVars == <<tavily_key, search_cache, api_usage, now, calls, last>>

genVars == <<groq_key, content_rotation_index, generated_messages,
             current_message_index, gen>>

vars == <<enforceVars, searchVars, genVars>>

-----------------------------------------------------------------------------
(* The session state as the top of the script leaves it *)

\* no enforce_constraints request
EnforceIdle ==
    /\ draft = ""
    /\ company = ""
    /\ designation = ""
    /\ message = ""
    /\ returned = FALSE

NoCall == [called |-> FALSE]

\* the search state before the first call (with the Tavily key set)
SearchIdle ==
    /\ tavily_key = TRUE
    /\ search_cache = <<>>
    /\ api_usage = 0
    /\ now = 0
    /\ calls = 0
    /\ last = NoCall

NoGeneration == [called |-> FALSE, selections |-> <<>>, completion_calls |-> 0]

\* the generation state before the first call (with the Groq key set)
GenIdle ==
    /\ groq_key = TRUE
    /\ content_rotation_index = 0
    /\ generated_messages = <<>>
    /\ current_message_index = -1
    /\ gen = NoGeneration

-----------------------------------------------------------------------------
(* Characters and the str methods the source uses *)

Min2(a, b) == IF a <= b THEN a ELSE b

\* s[a-1:b]: a slice stops at the end of the string
Slice(s, a, b) == SubSeq(s, a, Min2(b, Len(s)))

\* s[i-1:i]: the character at position i, '' past the end
Char(s, i) == Slice(s, i, i)

MinOf(S) == CHOOSE i \in S : \A j \in S : i <= j

MaxOf(S) == CHOOSE i \in S : \A j \in S : j <= i

UpperLetters == "ABCDEFGHIJKLMNOPQRSTUVWXYZ"

LowerLetters == "abcdefghijklmnopqrstuvwxyz"

Digits == "0123456789"

\* str.lower() on one character
LowerMap == [c \in {Char(UpperLetters, i) : i \in 1..26} |->
                Char(LowerLetters, CHOOSE i \in 1..26 : Char(UpperLetters, i) = c)]

LowerChar(c) == IF c \in DOMAIN LowerMap THEN LowerMap[c] ELSE c

\* "".join(pieces[lo:hi+1]): the concatenation of pieces[lo], ...,
\* pieces[hi], by quarters
RECURSIVE Join(_, _, _)
Join(pieces, lo, hi) ==
    IF hi - lo < 4
    THEN LET At(i) == IF i <= hi THEN pieces[i] ELSE ""
         IN  At(lo) \o At(lo + 1) \o At(lo + 2) \o At(lo + 3)
    ELSE LET q == (hi - lo + 1) \div 4
         IN  Join(pieces, lo, lo + q - 1) \o Join(pieces, lo + q, lo + 2 * q - 1)
             \o Join(pieces, lo + 2 * q, lo + 3 * q - 1)
             \o Join(pieces, lo + 3 * q, hi)

\* str.lower()
lower(s) ==
    IF s = "" THEN ""
    ELSE Join([i \in 1..Len(s) |-> LowerChar(Char(s, i))], 1, Len(s))

\* the characters \w matches: letters, digits and the underscore
WordChars == {Char(UpperLetters, i) : i \in 1..26}
             \cup {Char(LowerLetters, i) : i \in 1..26}
             \cup {Char(Digits, i) : i \in 1..10} \cup {"_"}

\* the characters \s matches and str.strip() strips
SpaceChars == {" ", "\n", "\t", "\r"}

\* the places where p occurs in s, as positions of its first character
Occurrences(s, p) ==
    {i \in 1..(Len(s) - Len(p) + 1) : SubSeq(s, i, i + Len(p) - 1) = p}

\* `p in s`
Contains(s, p) == Occurrences(s, p) # {}

\* s.find(p): the 0-based index of the first occurrence, or -1
find(s, p) == IF Contains(s, p) THEN MinOf(Occurrences(s, p)) - 1 ELSE -1

\* s.rfind(p): the 0-based index of the last occurrence, or -1
rfind(s, p) == IF Contains(s, p) THEN MaxOf(Occurrences(s, p)) - 1 ELSE -1

\* s[:k] for k >= 0
Prefix(s, k) == Slice(s, 1, k)

\* s[k:] for k >= 0
Suffix(s, k) == SubSeq(s, k + 1, Len(s))

\* s.split(p)[0]: what precedes the first occurrence of p (all of s without one)
SplitFirst(s, p) == IF Contains(s, p) THEN Prefix(s, find(s, p)) ELSE s

\* s.split(p)[1]: what lies between the first and the second occurrence of p
SplitSecond(s, p) ==
    LET rest == Suffix(s, find(s, p) + Len(p))
    IN  SplitFirst(rest, p)

-----------------------------------------------------------------------------
(* The regular expressions of enforce_constraints *)

\* \b at position i (between the characters i - 1 and i)
IsBoundary(s, i) ==
    LET before == i > 1 /\ Char(s, i - 1) \in WordChars
        after  == i <= Len(s) /\ Char(s, i) \in WordChars
    IN  before # after

\* \b p \b matches at i, ignoring case; low is lower(s) and p is lower-cased
WordMatchAt(low, p, i) ==
    /\ SubSeq(low, i, i + Len(p) - 1) = p
    /\ IsBoundary(low, i)
    /\ IsBoundary(low, i + Len(p))

RECURSIVE SubWordFrom(_, _, _, _)
SubWordFrom(s, low, p, from) ==
    LET hits == {i \in from..(Len(s) - Len(p) + 1) : WordMatchAt(low, p, i)}
    IN  IF hits = {} THEN SubSeq(s, from, Len(s))
        ELSE LET i == MinOf(hits)
             IN  SubSeq(s, from, i - 1) \o SubWordFrom(s, low, p, i + Len(p))

\* re.sub(r'\b' + p + r'\b', '', s, flags=re.IGNORECASE) for a literal p:
\* the non-overlapping matches are found left to right in s and removed
SubWord(s, p) == IF s = "" THEN "" ELSE SubWordFrom(s, lower(s), lower(p), 1)

\* re.sub(r'\s+', ' ', s): a run of whitespace leaves one space, written here
\* at the place of the last character of the run
CollapseRuns(s) ==
    IF s = "" THEN ""
    ELSE Join([i \in 1..Len(s) |->
                  IF Char(s, i) \notin SpaceChars THEN Char(s, i)
                  ELSE IF i < Len(s) /\ Char(s, i + 1) \in SpaceChars THEN ""
                  ELSE " "],
              1, Len(s))

\* str.strip()
strip(s) ==
    LET keep == {i \in 1..Len(s) : Char(s, i) \notin SpaceChars}
    IN  IF keep = {} THEN "" ELSE SubSeq(s, MinOf(keep), MaxOf(keep))

\* re.sub(r'\s+', ' ', s).strip()
CollapseSpaces(s) == strip(CollapseRuns(s))


\* the length of the run of characters of S that starts at position i
RECURSIVE RunLen(_, _, _)
RunLen(s, i, S) ==
    IF i <= Len(s) /\ Char(s, i) \in S THEN 1 + RunLen(s, i + 1, S) ELSE 0

closing_words == <<"best", "regards", "thanks", "sincerely">>

sender_name == "kingshuk"

\* r'\n*(Best|Regards|Thanks|Sincerely),?\s*\n*Kingshuk.*$' with re.IGNORECASE,
\* tried at position i of s (low is lower(s)): the position of the last
\* character of the match, or -1 when there is no match at i.  Each greedy
\* piece is followed by a character it cannot match, so it takes its whole run.
\* `.` matches no newline and `$` matches at the end of the string or before a
\* newline that is its last character.
SignatureEnd(s, low, i) ==
    LET j == i + RunLen(s, i, {"\n"})
        words == {w \in 1..Len(closing_words) :
                     Slice(low, j, j + Len(closing_words[w]) - 1) = closing_words[w]}
    IN  IF words = {} THEN -1
        ELSE LET k == j + Len(closing_words[MinOf(words)])
                 c == IF Char(s, k) = "," THEN k + 1 ELSE k
                 q == c + RunLen(s, c, SpaceChars)
                 e == q + Len(sender_name)
                 newlines == {n \in e..Len(s) : Char(s, n) = "\n"}
             IN  IF Slice(low, q, e - 1) # sender_name THEN -1
                 ELSE IF newlines = {} THEN Len(s)
                 ELSE IF MinOf(newlines) = Len(s) THEN Len(s) - 1
                 ELSE -1

\* StripSignature with re.IGNORECASE forgotten: a match counts only when the
\* closing word and the sender name are spelled as in the pattern
StripSignatureCaseSensitive(s) ==
    LET low == lower(s)
        Spelled(i) ==
            LET j == i + RunLen(s, i, {"\n"})
                q == i + find(Suffix(low, i - 1), sender_name)
            IN  /\ \E w \in {"Best", "Regards", "Thanks", "Sincerely"} :
                      Slice(s, j, j + Len(w) - 1) = w
                /\ Slice(s, q, q + Len(sender_name) - 1) = "Kingshuk"
        starts == {i \in 1..Len(s) : SignatureEnd(s, low, i) # -1 /\ Spelled(i)}
    IN  IF starts = {} THEN s
        ELSE LET i == MinOf(starts)
             IN  Prefix(s, i - 1) \o Suffix(s, SignatureEnd(s, low, i))

\* re.sub(r'\n*(Best|Regards|Thanks|Sincerely),?\s*\n*Kingshuk.*$', '', s,
\*        flags=re.IGNORECASE): the leftmost match is removed; it reaches the
\* end of the string (or the newline that ends it), so there is no second one
StripSignature(s) ==
    LET low == lower(s)
        starts == {i \in 1..Len(s) : SignatureEnd(s, low, i) # -1}
    IN  IF starts = {} THEN s
        ELSE LET i == MinOf(starts)
             IN  Prefix(s, i - 1) \o Suffix(s, SignatureEnd(s, low, i))

-----------------------------------------------------------------------------
(* enforce_constraints, pass by pass *)

prohibited_words ==
    << "exploring", "interested", "learning", "No easy feat", "Impressive",
       "Noteworthy", "Remarkable", "Fascinating", "Admiring", "Inspiring",
       "No small feat", "No easy task", "Stood out", "rare to see",
       "it's rare to see" >>

\* the words lo..hi of the list removed from m one after the other, in the
\* order of the list (the first half of the range, then the second)
RECURSIVE RemoveWords(_, _, _)
RemoveWords(m, lo, hi) ==
    IF m = "" THEN ""
    ELSE IF lo = hi THEN SubWord(m, prohibited_words[lo])
    ELSE LET mid == (lo + hi) \div 2
         IN  RemoveWords(RemoveWords(m, lo, mid), mid + 1, hi)

\* for word in prohibited_words: message = re.sub(r'\b' + word + r'\b', '', ...)
RemoveProhibited(m) == RemoveWords(m, 1, Len(prohibited_words))

\* if company: message = re.sub(r'\b' + re.escape(company) + r'\b', '', ...)
\* (None and '' are both false; the form passes '' for an empty field)
RemoveField(m, field) == IF field # "" THEN SubWord(m, field) ELSE m

connection_phrases ==
    <<"Would love to connect", "Would be glad to connect",
      "I'd love to connect", "Let's connect">>

canonical_phrase == "Would love to connect"

closing == "Would love to connect."

\* any(phrase in message for phrase in connection_phrases)
HasConnectionPhrase(m) ==
    \E k \in 1..Len(connection_phrases) : Contains(m, connection_phrases[k])

\* "Ensure the message has a proper structure"
EnsureConnect(m) ==
    IF HasConnectionPhrase(m) THEN m
    ELSE IF Contains(lower(m), "connect")
         THEN LET connect_index == find(lower(m), "connect")
              IN  IF connect_index > 0
                  THEN Prefix(m, connect_index) \o closing
                  ELSE m \o "\n\n" \o closing
         ELSE m \o "\n\n" \o closing

MAX_LEN == 270

MIN_LEN == 200

MAIN_MAX == 240

MAIN_CUT == 237

HARD_CUT == 267

\* the cut of one over-long text at its last period before `limit`, or a hard
\* cut at `cut` characters plus an ellipsis
CutAtSentence(text, limit, cut) ==
    LET last_period == rfind(Prefix(text, limit), ".")
    IN  IF last_period > 0 THEN Prefix(text, last_period + 1)
        ELSE Prefix(text, cut) \o "..."

\* "Enforce character limits (200-270)": the upper limit
EnforceMax(m) ==
    IF Len(m) > MAX_LEN
    THEN IF Contains(m, canonical_phrase)
         THEN LET main_content == SplitFirst(m, canonical_phrase)
              IN  (IF Len(main_content) > MAIN_MAX
                   THEN CutAtSentence(main_content, MAIN_MAX, MAIN_CUT)
                   ELSE main_content) \o closing
         ELSE CutAtSentence(m, MAX_LEN, HARD_CUT)
    ELSE m

enhancement_phrases ==
    <<"I found your perspective particularly insightful.",
      "This offers a fresh take on the challenges we're seeing in the industry.",
      "Your approach to this topic is quite innovative.",
      "This gives me a new perspective on the matter.">>

\* "Check if message is too short - enhance it instead of rejecting";
\* enhancement is random.choice(enhancement_phrases)
EnforceMin(m, enhancement) ==
    IF Len(m) < MIN_LEN
    THEN IF Contains(m, canonical_phrase)
         THEN SplitFirst(m, canonical_phrase) \o enhancement
              \o " Would love to connect" \o SplitSecond(m, canonical_phrase)
         ELSE m \o " " \o enhancement
    ELSE m

\* the message after the removals and the whitespace clean-up
Cleaned(m, comp, desig) ==
    CollapseSpaces(RemoveField(RemoveField(RemoveProhibited(m), comp), desig))

\* the message that reaches the lower-limit check
BeforeMin(m, comp, desig) ==
    EnforceMax(EnsureConnect(StripSignature(Cleaned(m, comp, desig))))

\* enforce_constraints(message, company, designation), with the enhancement
\* that random.choice picks
enforce_constraints(m, comp, desig, enhancement) ==
    EnforceMin(BeforeMin(m, comp, desig), enhancement)

-----------------------------------------------------------------------------
(* search_content_by_person: the cache and the retrieval *)

\* timedelta(hours=1), in minutes
TTL == 60

\* the step of the clock, in minutes
TickMinutes == 30

MaxNow == 120

MaxCalls == 3

\* f"{person_name}_{company}_{designation}_author_content"; the form passes
\* every field as a string, '' when it is left empty
cache_key(person_name, comp, desig) ==
    person_name \o "_" \o comp \o "_" \o desig \o "_author_content"

\* IsFresh with <= for <
IsFreshInclusive(entry, t) == t - entry.timestamp <= TTL

\* datetime.now() - cached_data['timestamp'] < timedelta(hours=1)
IsFresh(entry, t) == t - entry.timestamp < TTL

\* what client.search does with one query: it raises, or it answers with a
\* list of raw records (no answer, or one without "results", counts as <<>>)
Raises == [raised |-> TRUE, results |-> <<>>]

Answers(records) == [raised |-> FALSE, results |-> records]

\* the loop over the first n queries: the records of the answers that arrived,
\* in order, and the number of track_usage("Tavily") calls
RECURSIVE all_results(_, _)
all_results(answers, n) ==
    IF n = 0 THEN <<>>
    ELSE IF answers[n].raised THEN all_results(answers, n - 1)
    ELSE all_results(answers, n - 1) \o answers[n].results

Tracked(answers, n) ==
    Cardinality({i \in 1..n : ~answers[i].raised /\ answers[i].results # <<>>})

\* person_name.lower() in result.get('content', '').lower() or
\* person_name.lower() in result.get('title', '').lower()
Mentions(result, person_name) ==
    \/ Contains(lower(result.content), lower(person_name))
    \/ Contains(lower(result.title), lower(person_name))

\* "Remove duplicates by URL and ensure content is actually by the author"
RECURSIVE unique_results(_, _, _, _)
unique_results(all, person_name, i, seen_urls) ==
    IF i > Len(all) THEN <<>>
    ELSE IF /\ all[i].url # ""
            /\ all[i].url \notin seen_urls
            /\ Mentions(all[i], person_name)
         THEN <<all[i]>> \o unique_results(all, person_name, i + 1,
                                           seen_urls \cup {all[i].url})
         ELSE unique_results(all, person_name, i + 1, seen_urls)

process_tavily_results(results) ==
    [i \in 1..Len(results) |->
        [title   |-> results[i].title,
         snippet |-> results[i].content,
         url     |-> results[i].url,
         date    |-> results[i].published_date,
         source  |-> "Tavily Search"]]

\* the retrieval of one call with a key set, against the answers `web` of the
\* service: the results, the number of client.search calls made, the number
\* of track_usage calls, and the deduplication steps the call ran, each with
\* the all_results it was given and the unique_results it left
Retrieve(person_name, comp, desig, web) ==
    LET nCompany == IF comp # "" THEN 4 ELSE 0
        allCompany == all_results(web.company, nCompany)
        byCompany == unique_results(allCompany, person_name, 1, {})
        nPerson == IF desig # "" THEN 4 ELSE 3
        allPerson == all_results(web.person, nPerson)
        byPerson == unique_results(allPerson, person_name, 1, {})
        companyStep == IF comp # ""
                       THEN << [all_results |-> allCompany,
                                unique_results |-> byCompany] >>
                       ELSE <<>>
        personStep == << [all_results |-> allPerson,
                          unique_results |-> byPerson] >>
    IN  IF byCompany # <<>>
        THEN [results |-> process_tavily_results(byCompany),
              invoked |-> nCompany,
              tracked |-> Tracked(web.company, nCompany),
              steps   |-> companyStep]
        ELSE IF byPerson # <<>>
        THEN [results |-> process_tavily_results(byPerson),
              invoked |-> nCompany + nPerson,
              tracked |-> Tracked(web.company, nCompany)
                          + Tracked(web.person, nPerson),
              steps   |-> companyStep \o personStep]
        ELSE [results |-> IF web.general.raised THEN <<>>
                          ELSE process_tavily_results(web.general.results),
              invoked |-> nCompany + nPerson + 1,
              tracked |-> Tracked(web.company, nCompany)
                          + Tracked(web.person, nPerson)
                          + Tracked(<<web.general>>, 1),
              steps   |-> companyStep \o personStep]

\* st.session_state.search_cache[cache_key] = {'results': ..., 'timestamp': ...};
\* `asked` is not in the source: it records whose results the entry holds
Put(cache, key, results, t, asked) ==
    [k \in DOMAIN cache \cup {key} |->
        IF k = key THEN [results |-> results, timestamp |-> t, asked |-> asked]
        ELSE cache[k]]

\* the raw records the service knows
AnnOnAI ==
    [title |-> "Ann Lee on AI", content |-> "A post on agents.",
     url |-> "https://a.example/ai", published_date |-> "2025-01-05"]

AnnNotes ==
    [title |-> "Weekly notes", content |-> "Written by ANN LEE.",
     url |-> "https://a.example/ai", published_date |-> ""]

AnnTalk ==
    [title |-> "Ann Lee talk", content |-> "",
     url |-> "https://a.example/talk", published_date |-> ""]

BobNews ==
    [title |-> "Market news", content |-> "By Bob Roy.",
     url |-> "https://b.example/news", published_date |-> ""]

AnnMemo ==
    [title |-> "Ann Lee memo", content |-> "Internal.",
     url |-> "", published_date |-> ""]

Nothing == Answers(<<>>)

\* what the service answers to the four company queries, the four person
\* queries and the general query of one call
Webs ==
    { [company |-> <<Nothing, Nothing, Nothing, Nothing>>,
       person  |-> <<Nothing, Nothing, Nothing, Nothing>>,
       general |-> Nothing],
      [company |-> <<Raises, Raises, Raises, Raises>>,
       person  |-> <<Raises, Raises, Raises, Raises>>,
       general |-> Raises],
      [company |-> <<Answers(<<AnnOnAI, BobNews>>), Raises,
                     Answers(<<AnnNotes>>), Nothing>>,
       person  |-> <<Nothing, Nothing, Nothing, Nothing>>,
       general |-> Nothing],
      [company |-> <<Answers(<<BobNews>>), Nothing, Nothing, Raises>>,
       person  |-> <<Answers(<<BobNews, AnnTalk>>), Answers(<<AnnTalk, AnnOnAI>>),
                     Raises, Answers(<<AnnNotes>>)>>,
       general |-> Raises],
      [company |-> <<Answers(<<BobNews>>), Nothing, Nothing, Nothing>>,
       person  |-> <<Answers(<<AnnMemo>>), Answers(<<BobNews>>), Nothing, Nothing>>,
       general |-> Answers(<<BobNews, AnnOnAI, AnnNotes>>)],
      [company |-> <<Nothing, Nothing, Nothing, Nothing>>,
       person  |-> <<Answers(<<AnnMemo, AnnMemo>>), Nothing, Nothing, Nothing>>,
       general |-> Raises] }

\* the requests of the form: person name, company, designation
Requests ==
    { <<"Ann Lee", "", "">>,
      <<"Ann Lee", "Acme_Labs", "CTO">>,
      <<"Ann Lee", "Acme", "Labs_CTO">> }

\* the minutes since the entry under key was stored, -1 without an entry
\* (recorded with the call for the claims; the source keeps no such record)
Age(cache, key, t) ==
    IF key \in DOMAIN cache THEN t - cache[key].timestamp ELSE -1

\* search_content_by_person(person_name, comp, desig), with the answers of the
\* service during the call and the minutes the retrieval takes
Search(person_name, comp, desig, web, elapsed) ==
    LET key == cache_key(person_name, comp, desig)
        req == <<person_name, comp, desig>>
    IN  /\ calls < MaxCalls
        /\ now + elapsed <= MaxNow
        /\ calls' = calls + 1
        /\ IF key \in DOMAIN search_cache /\ IsFresh(search_cache[key], now)
           THEN /\ last' = [called |-> TRUE, args |-> req, hit |-> TRUE,
                            results |-> search_cache[key].results, invoked |-> 0,
                            age |-> Age(search_cache, key, now),
                            steps |-> <<>>]
                /\ UNCHANGED <<search_cache, api_usage, now>>
           ELSE IF tavily_key
           THEN \E r \in {Retrieve(person_name, comp, desig, web)} :
                  /\ api_usage' = api_usage + r.tracked
                  /\ now' = now + elapsed
                  /\ search_cache' = Put(search_cache, key, r.results, now', req)
                  /\ last' = [called |-> TRUE, args |-> req, hit |-> FALSE,
                              results |-> r.results, invoked |-> r.invoked,
                              age |-> Age(search_cache, key, now),
                              steps |-> r.steps]
           ELSE /\ now' = now + elapsed
                /\ search_cache' = Put(search_cache, key, <<>>, now', req)
                /\ last' = [called |-> TRUE, args |-> req, hit |-> FALSE,
                            results |-> <<>>, invoked |-> 0,
                            age |-> Age(search_cache, key, now),
                            steps |-> <<>>]
                /\ UNCHANGED api_usage
        /\ UNCHANGED tavily_key

\* time passes between two calls
Tick ==
    /\ now < MaxNow
    /\ now' = now + TickMinutes
    /\ UNCHANGED <<tavily_key, search_cache, api_usage, calls, last>>

InitSearch ==
    /\ tavily_key \in BOOLEAN
    /\ search_cache = <<>>
    /\ api_usage = 0
    /\ now = 0
    /\ calls = 0
    /\ last = NoCall
    /\ EnforceIdle
    /\ GenIdle

SearchCall ==
    /\ \E req \in Requests, web \in Webs, elapsed \in {0, TickMinutes} :
          Search(req[1], req[2], req[3], web, elapsed)
    /\ UNCHANGED <<enforceVars, genVars>>

Clock == Tick /\ UNCHANGED <<enforceVars, genVars>>

NextSearch == SearchCall \/ Clock

SpecSearch == InitSearch /\ [][NextSearch]_vars

-----------------------------------------------------------------------------
(* The drafts enforce_constraints is applied to *)

MaxDraftLen == 300

\* the first n characters of unit repeated
RECURSIVE Repeat(_, _)
Repeat(unit, n) ==
    IF n <= 0 THEN ""
    ELSE IF n <= Len(unit) THEN Prefix(unit, n)
    ELSE LET half == Repeat(unit, Len(unit) * ((n \div Len(unit)) \div 2))
         IN  IF half = "" THEN unit \o Repeat(unit, n - Len(unit))
             ELSE half \o half \o Repeat(unit, n - 2 * Len(half))

\* how a draft opens, with the company and designation of the request
Openings ==
    { <<"", "", "">>,
      <<"Hi Sam, your post on AI was sharp. ", "", "">>,
      <<"Hi Sam, I was exploring your Impressive post. ", "Acme", "CTO">>,
      <<"Hi Sam, No easy exploring feat here. ", "", "">>,
      <<"Hi Sam, it Stood Acme out at Acme. ", "Acme", "">>,
      <<"Hi Sam, I follow Acme Inc. closely. ", "Acme Inc.", "">>,
      <<"Hi Sam, I follow Acme Inc. closely. ", "Acme", "Inc">>,
      <<"Hi Sam, Big Data hired a Big CTO Data lead. ", "Big Data", "CTO">>,
      <<"connect soon? ", "", "">>,
      <<"Hi Sam, we should connect on this. ", "", "">> }

\* the filling of a draft: without and with sentence ends
Fillings == {"ab ", "rst uv. "}

\* how a draft ends
Endings ==
    { "",
      " Would love to connect.",
      " would love to connect.",
      " Let's connect.",
      " Regards, Kingshuk",
      " Let's connect. Kingshuk",
      " Let's connect.\n\nBEST,\nKingshuk" }

\* the lengths of the drafts: 0 stands for a draft without filling
DraftLens ==
    {0, MIN_LEN - 3, MIN_LEN - 2, MIN_LEN - 1, MIN_LEN, MAX_LEN, MAX_LEN + 1,
     MaxDraftLen}

\* the draft of length n (when opening and ending leave room for a filling)
Draft(opening, filling, ending, n) ==
    opening \o Repeat(filling, n - Len(opening) - Len(ending)) \o ending

-----------------------------------------------------------------------------
(* enforce_constraints as a state machine: a request, then the result *)

InitEnforce ==
    /\ \E o \in Openings, f \in Fillings, e \in Endings, n \in DraftLens :
          /\ draft = Draft(o[1], f, e, n)
          /\ company = o[2]
          /\ designation = o[3]
    /\ message = ""
    /\ returned = FALSE
    /\ SearchIdle
    /\ GenIdle

\* message = enforce_constraints(draft, company, designation)
Enforce ==
    /\ ~returned
    /\ \E m \in {BeforeMin(draft, company, designation)} :
          \E k \in 1..Len(enhancement_phrases) :
             message' = EnforceMin(m, enhancement_phrases[k])
    /\ returned' = TRUE
    /\ UNCHANGED <<draft, company, designation>>
    /\ UNCHANGED <<searchVars, genVars>>

NextEnforce == Enforce

SpecEnforce == InitEnforce /\ [][NextEnforce]_vars

-----------------------------------------------------------------------------
(* generate_message, the message history and its navigation *)

MaxRotation == 4

\* RotationIndex taken after the increment
RotationIndexAfter(counter, n) == (counter + 1) % n

\* st.session_state.content_rotation_index % len(content_data)
RotationIndex(counter, n) == counter % n

\* the content entered by hand when the search found nothing
ManualItem ==
    [title |-> "Agents at work", snippet |-> "A talk by Ann Lee.", url |-> "",
     date |-> "", source |-> "Manual Input"]

\* the content_data a generation call is given
ContentSets ==
    { <<>>, <<ManualItem>>, process_tavily_results(<<AnnOnAI, AnnTalk, BobNews>>) }

\* what chat_completion.choices[0].message.content can be
Completions ==
    { Draft("  Hi Ann, I was exploring your Impressive post at Acme. ", "rst uv. ",
            " Let's connect.\n\nRegards,\nKingshuk\n", MAX_LEN) }

\* the company and designation of a generation request
GenFields == { <<"Acme", "CTO">> }

\* enforce_constraints(content.strip(), company, designation) for the
\* completions, fields and enhancements above, each computed once
Enforced ==
    [d \in Completions, f \in GenFields, k \in 1..Len(enhancement_phrases) |->
        enforce_constraints(strip(d), f[1], f[2], enhancement_phrases[k])]

\* the history entry of a generated message and its source
message_data(text, selected_content) ==
    [message        |-> text,
     source_title   |-> selected_content.title,
     source_snippet |-> selected_content.snippet,
     source_url     |-> selected_content.url,
     timestamp      |-> now]

\* a history that keeps the latest entry only
StoredLatestOnly(history, entry) == <<entry>>

\* st.session_state.generated_messages.append(message_data)
Stored(history, entry) == Append(history, entry)

\* generate_message(person_name, content_data, comp, desig): `completion` is
\* the text of the completion, or "raise" when the Groq call raises.  gen
\* records the call: the index it selected (-1 for none), what it returned,
\* how often it called client.chat.completions.create, and, in selections,
\* the <<length, index>> of every selection made so far.
Generate(content_data, comp, desig, completion, k) ==
    IF ~groq_key
    THEN /\ gen' = [called |-> TRUE, content_data |-> content_data,
                    index |-> -1, result |-> "None",
                    selections |-> gen.selections, completion_calls |-> 0]
         /\ UNCHANGED <<content_rotation_index, generated_messages,
                        current_message_index>>
    ELSE LET rotation_index ==
                 IF content_data # <<>>
                 THEN RotationIndex(content_rotation_index, Len(content_data))
                 ELSE -1
             selected_content == content_data[rotation_index + 1]
             text == Enforced[completion, <<comp, desig>>, k]
             selections ==
                 IF content_data # <<>>
                 THEN Append(gen.selections, <<Len(content_data), rotation_index>>)
                 ELSE gen.selections
         IN  /\ content_rotation_index' =
                    IF content_data # <<>> THEN content_rotation_index + 1
                    ELSE content_rotation_index
             /\ IF completion = "raise"
                THEN /\ gen' = [called |-> TRUE, content_data |-> content_data,
                                index |-> rotation_index, result |-> "None",
                                selections |-> selections, completion_calls |-> 1]
                     /\ UNCHANGED <<generated_messages, current_message_index>>
                ELSE /\ gen' = [called |-> TRUE, content_data |-> content_data,
                                index |-> rotation_index, result |-> text,
                                selections |-> selections, completion_calls |-> 1]
                     /\ IF text # "" /\ content_data # <<>>
                        THEN /\ generated_messages' =
                                   Stored(generated_messages,
                                          message_data(text, selected_content))
                             /\ current_message_index' = Len(generated_messages')  - 1
                        ELSE UNCHANGED <<generated_messages, current_message_index>>

\* show_previous_message stepping back from index 0 as well
show_previous_message_from_zero ==
    /\ IF current_message_index >= 0
       THEN current_message_index' = current_message_index - 1
       ELSE UNCHANGED current_message_index
    /\ UNCHANGED <<groq_key, content_rotation_index, generated_messages, gen>>

show_previous_message ==
    /\ IF current_message_index > 0
       THEN current_message_index' = current_message_index - 1
       ELSE UNCHANGED current_message_index
    /\ UNCHANGED <<groq_key, content_rotation_index, generated_messages, gen>>

show_next_message ==
    /\ IF current_message_index < Len(generated_messages) - 1
       THEN current_message_index' = current_message_index + 1
       ELSE UNCHANGED current_message_index
    /\ UNCHANGED <<groq_key, content_rotation_index, generated_messages, gen>>

Init ==
    /\ groq_key \in BOOLEAN
    /\ content_rotation_index = 0
    /\ generated_messages = <<>>
    /\ current_message_index = -1
    /\ gen = NoGeneration
    /\ EnforceIdle
    /\ SearchIdle

GenerateCall ==
    /\ content_rotation_index < MaxRotation
    /\ \E content_data \in ContentSets, f \in GenFields,
          completion \in Completions \cup {"raise"},
          k \in 1..Len(enhancement_phrases) :
          Generate(content_data, f[1], f[2], completion, k)
    /\ UNCHANGED groq_key
    /\ UNCHANGED <<enforceVars, searchVars>>

Previous == show_previous_message /\ UNCHANGED <<enforceVars, searchVars>>

Forward == show_next_message /\ UNCHANGED <<enforceVars, searchVars>>

Next == GenerateCall \/ Previous \/ Forward

Spec == Init /\ [][Next]_vars

-----------------------------------------------------------------------------
(* Claims about enforce_constraints, checked under SpecEnforce *)

\* C1: the returned message has at most 270 characters, also when the filler
\* of the lower-limit pass was inserted, and it has at least 200 characters
\* unless it is still shorter after the one filler insertion.
C1_LengthWindow ==
    returned =>
        /\ Len(message) <= MAX_LEN
        /\ Len(message) < MIN_LEN
              => Len(BeforeMin(draft, company, designation)) < MIN_LEN

\* \b w \b matches somewhere in s, ignoring case
HasWord(s, w) ==
    LET low == lower(s)
        p == lower(w)
    IN  \E i \in 1..(Len(s) - Len(w) + 1) : WordMatchAt(low, p, i)

\* C2: the returned message contains none of the banned words and phrases,
\* ignoring case (read in the code's favour: as whole words), also when an
\* earlier removal and the whitespace clean-up join the words of a phrase.
C2_NoBannedPhrase ==
    returned =>
        \A k \in 1..Len(prohibited_words) : ~HasWord(message, prohibited_words[k])

\* C3: a company that is supplied and occurs verbatim in the raw draft does not
\* occur verbatim in the returned message.
C3_CompanyRedacted ==
    (returned /\ company # "" /\ Contains(draft, company))
        => ~Contains(message, company)

\* C4: the returned message contains one of the connect phrases, ignoring
\* case, also when the upper-limit pass truncated it.
C4_HasConnectPhrase ==
    returned =>
        \E k \in 1..Len(connection_phrases) :
            Contains(lower(message), lower(connection_phrases[k]))

\* the sender name, with or without a closing word before it, runs through the
\* end of s: the signature pattern with the closing word optional
NameToEnd(s) ==
    \E i \in Occurrences(lower(s), sender_name) :
        LET newlines == {n \in i..Len(s) : Char(s, n) = "\n"}
        IN  newlines = {} \/ newlines = {Len(s)}

\* the signature pattern of the source (closing word, optional comma, sender
\* name, through the end) matches somewhere in s
HasSignature(s) ==
    LET low == lower(s)
    IN  \E i \in 1..Len(s) : SignatureEnd(s, low, i) # -1

BeforeConnect(m, comp, desig) == StripSignature(Cleaned(m, comp, desig))

\* the call-to-action pass as C13 describes it
CallToAction(m) ==
    LET low == lower(m)
    IN  IF \E k \in 1..Len(connection_phrases) :
               Contains(low, lower(connection_phrases[k]))
        THEN m
        ELSE IF Contains(low, "connect")
        THEN Prefix(m, find(low, "connect")) \o closing
        ELSE m \o "\n\n" \o closing

\* C13: the call-to-action pass leaves a message with one of the four
\* connection phrases (ignoring case) unchanged; otherwise, when "connect"
\* occurs (ignoring case, also at position 0), it cuts the message at the
\* first "connect" and puts "Would love to connect." there; otherwise it
\* appends "\n\nWould love to connect." to the unchanged message.
C13_CallToAction ==
    returned =>
        \E m \in {BeforeConnect(draft, company, designation)} :
            /\ EnsureConnect(m) = CallToAction(m)
            /\ \E k \in 1..Len(enhancement_phrases) :
                   message = EnforceMin(EnforceMax(CallToAction(m)),
                                        enhancement_phrases[k])

-----------------------------------------------------------------------------
(* Claims about search_content_by_person, checked under SpecSearch *)

\* what a step that is a search call does with the entry stored for the same
\* request; retrieves says whether a stale entry must lead to retrieval calls
CacheStep(retrieves) ==
    LET req == last'.args
        key == cache_key(req[1], req[2], req[3])
        stored == key \in DOMAIN search_cache /\ search_cache[key].asked = req
    IN  /\ (stored /\ now - search_cache[key].timestamp < TTL)
              => /\ last'.hit
                 /\ last'.results = search_cache[key].results
                 /\ last'.invoked = 0
                 /\ search_cache' = search_cache
        /\ (stored /\ now - search_cache[key].timestamp >= TTL)
              => /\ ~last'.hit
                 /\ retrieves => last'.invoked > 0
                 /\ search_cache'[key].timestamp = now'
                 /\ search_cache'[key].timestamp > search_cache[key].timestamp
                 /\ search_cache'[key].results = last'.results

\* C6 as stated: a call with the arguments of an earlier call, less than one
\* hour after the entry was stored, returns the stored results (empty or not)
\* without a retrieval call; from one hour on it never returns the stored
\* entry, calls the retrieval service again and overwrites the entry with a
\* new timestamp.
C6_CacheWindow == [][calls' = calls + 1 => CacheStep(TRUE)]_vars

\* C6 as amended: the same, but a stale entry leads to retrieval calls only
\* when the Tavily key is set; without the key no retrieval call is made and
\* an empty result is stored under the new timestamp.
C6_CacheWindowWithKey ==
    [][calls' = calls + 1
          => /\ CacheStep(tavily_key)
             /\ (~tavily_key /\ ~last'.hit)
                   => last'.invoked = 0 /\ last'.results = <<>>]_vars

\* C6: a call has found its own entry stale and has retrieved again
C6_StaleRetrieved ==
    /\ last.called
    /\ last.age >= TTL
    /\ ~last.hit
    /\ last.invoked > 0
    /\ search_cache[cache_key(last.args[1], last.args[2], last.args[3])].timestamp
          = now

\* C7: a returned result set holds at most one item per non-empty URL, on
\* every path (company queries, person queries, general search).
C7_UniqueUrls ==
    last.called =>
        \A i, j \in 1..Len(last.results) :
            (i < j /\ last.results[i].url # "")
                => last.results[i].url # last.results[j].url

\* C8: every item of a returned result set has the lower-cased person name in
\* its lower-cased title or body, on every path.
C8_AllRelevant ==
    last.called =>
        \A i \in 1..Len(last.results) :
            \/ Contains(lower(last.results[i].title), lower(last.args[1]))
            \/ Contains(lower(last.results[i].snippet), lower(last.args[1]))

\* C10: requests that differ in person, company or designation have different
\* cache keys, so a cache hit returns results retrieved for the same request.
C10_HitSameTriple ==
    (last.called /\ last.hit)
        => search_cache[cache_key(last.args[1], last.args[2], last.args[3])].asked
              = last.args

\* the records of a list that have an empty URL and mention the person
RelevantWithoutUrl(records, person_name) ==
    LET Test(r) == r.url = "" /\ Mentions(r, person_name)
    IN  SelectSeq(records, Test)

\* C12: in a deduplication step, a raw record with an empty URL bypasses the
\* uniqueness check: the empty-URL records that mention the person are all
\* kept, in order and without being deduplicated against each other.
C12_EmptyUrlKept ==
    last.called =>
        \A k \in 1..Len(last.steps) :
            RelevantWithoutUrl(last.steps[k].unique_results, last.args[1])
                = RelevantWithoutUrl(last.steps[k].all_results, last.args[1])

-----------------------------------------------------------------------------
(* Claims about generate_message, checked under Spec *)

\* a step that is a call of generate_message and changes anything
GenerateStep ==
    gen' # gen \/ content_rotation_index' # content_rotation_index

\* the call of this step selected positionally and advanced the counter, or
\* selected nothing from an empty result set and left the counter alone
RotationStep ==
    LET N == Len(gen'.content_data)
    IN  /\ N > 0 => /\ gen'.index = content_rotation_index % N
                    /\ content_rotation_index' = content_rotation_index + 1
        /\ N = 0 => /\ gen'.index = -1
                    /\ content_rotation_index' = content_rotation_index

\* the i-th selection ever made was made at counter i - 1, so that four
\* selections from a result set of length 3 are 0, 1, 2, 0
SelectionsPositional ==
    /\ Len(gen.selections) = content_rotation_index
    /\ \A i \in 1..Len(gen.selections) :
           gen.selections[i][2] = (i - 1) % gen.selections[i][1]

\* C9 as stated: the counter starts at 0; every generation call with a
\* non-empty result set of length N uses the item at index C mod N and then
\* adds exactly 1 to C, whether or not the draft call fails; a call with an
\* empty result set selects nothing and leaves C unchanged.
C9_Rotation ==
    /\ content_rotation_index = 0
    /\ [][GenerateStep => RotationStep]_vars
    /\ []SelectionsPositional

\* C9 as amended: the same for every generation call made while the Groq key
\* is set; a call made without the key returns before the rotation, selects
\* nothing and leaves C unchanged, whatever the result set.
C9_RotationWithKey ==
    /\ content_rotation_index = 0
    /\ [][GenerateStep =>
             IF groq_key THEN RotationStep
             ELSE /\ gen'.index = -1
                  /\ content_rotation_index' = content_rotation_index]_vars
    /\ []SelectionsPositional

\* C9: four calls in a row on a result set of length 3 have been made, the
\* last of them wrapping around to the first item
C9_FourthCallWraps ==
    /\ gen.called
    /\ content_rotation_index = 4
    /\ gen.index = 0
    /\ gen.selections = << <<3, 0>>, <<3, 1>>, <<3, 2>>, <<3, 0>> >>

\* C11: the history is append-only and tracks successes only: a generation
\* call that succeeds with a selected item appends exactly one entry (the
\* returned message with its source); a call whose completion fails returns no
\* message, has called the completion service once and not again, and leaves
\* the history and the current index unchanged; no step changes or removes an
\* entry that is already there.
C11_HistoryAppendOnly ==
    [][/\ Len(generated_messages') \in
              {Len(generated_messages), Len(generated_messages) + 1}
       /\ SubSeq(generated_messages', 1, Len(generated_messages))
              = generated_messages
       /\ GenerateStep =>
              /\ gen'.completion_calls <= 1
              /\ (gen'.result # "None" /\ gen'.index # -1)
                    => /\ gen'.completion_calls = 1
                       /\ generated_messages' =
                              Append(generated_messages,
                                     message_data(gen'.result,
                                         gen'.content_data[gen'.index + 1]))
              /\ gen'.result = "None"
                    => /\ generated_messages' = generated_messages
                       /\ current_message_index' = current_message_index
       /\ ~GenerateStep => generated_messages' = generated_messages]_vars

\* C11: two generations have been stored and a later call, with an item
\* selected, has failed in its one completion call
C11_FailedAfterTwoStored ==
    /\ gen.called
    /\ gen.result = "None"
    /\ gen.index # -1
    /\ gen.completion_calls = 1
    /\ Len(generated_messages) = 2
    /\ content_rotation_index = 3

\* the current index is -1 exactly when the history is empty, and otherwise
\* the index of one of its entries
IndexInRange ==
    IF generated_messages = <<>>
    THEN current_message_index = -1
    ELSE current_message_index \in 0..(Len(generated_messages) - 1)

\* C14: after any sequence of generation calls and previous/next actions the
\* current index is -1 exactly when the history is empty and otherwise within
\* 0 .. len - 1; a successful generation (one that returns a message for a
\* selected item, as every call the form makes has one) sets it to the last
\* index; previous and next change it by at most 1.
C14_IndexInRange ==
    /\ []IndexInRange
    /\ [][/\ (GenerateStep /\ gen'.result # "None" /\ gen'.index # -1)
              => current_message_index' = Len(generated_messages') - 1
          /\ ~GenerateStep
              => current_message_index' \in
                    {current_message_index - 1, current_message_index,
                     current_message_index + 1}]_vars

\* C14: three messages have been generated and the user has gone back to the
\* first of them
C14_BackAtFirst ==
    /\ Len(generated_messages) = 3
    /\ current_message_index = 0
    /\ gen.result # "None"

=============================================================================
